---------------------------- MODULE Spec2Model ----------------------------
(*
  Model of the reencryption-key-hodler contract (src/src/contract.rs,
  src/src/msg.rs): one persisted State record {reencryption_key, owner}
  behind a storage singleton, the entry points init / handle / query, and
  the handlers try_set_reencryption_key / try_reset / query_count.

  Every entry point is modelled as an operator from (storage, message
  sender, message) to its outcome: the storage it leaves, the StdResult it
  returns, the response payload and the number of save calls it made.  One
  action per entry point applies that operator to the current storage and
  records the call, so a claim about "the call that just happened" is a
  predicate of one state.

  env.message.sender is supplied by the host, which only delivers messages
  of existing accounts: every sender of the model is an address that
  canonical_address accepts.  The Err arm of each `?` is kept in the
  handlers all the same.
*)
EXTENDS Integers, Sequences, FiniteSets, TLC

(* ------------------------------ bounds ------------------------------- *)

\* bytes of a key range over 0..MaxByte
MaxByte == 1

\* human addresses have 3..MaxAddrLen characters
MaxAddrLen == 4

(* ------------------------- program constants ------------------------- *)

\* [u8; 32]
KeyLen == 32

\* mock_dependencies(20, ..): length of a canonical address
CanonicalLength == 20

(* ------------------------------ values ------------------------------- *)

Bytes == 0 .. MaxByte

Chars == {1, 2}

\* HumanAddr values the host hands over as env.message.sender: one
\* character repeated 3..MaxAddrLen times, so that some addresses are
\* prefixes of others and differ only in where the padding starts
Senders == {[i \in 1 .. n |-> c] : n \in 3 .. MaxAddrLen, c \in Chars}

\* [0; 32]
ZeroKey == [i \in 1 .. KeyLen |-> 0]

\* The [u8; 32] values a Set message carries: every uniform array [b; 32]
\* and every array that differs from a uniform one in its first or last byte.
Keys == {[i \in 1 .. KeyLen |-> IF i = p THEN b ELSE c] :
            b \in Bytes, c \in Bytes, p \in {1, KeyLen}}

\* HandleMsg
SetMsg(key) == [tag |-> "set", reencryption_key |-> key]

ResetMsg == [tag |-> "reset", reencryption_key |-> ZeroKey]

\* QueryMsg
GetReencryptionKeyMsg == [tag |-> "getreencryptionkey"]

\* ReencryptionKeyResponse
ReencryptionKeyResponse(key) == [reencryption_key |-> key]

(* ------------------------- host collaborators ------------------------ *)

\* Api::canonical_address: rejects an address that is too short or longer
\* than the canonical length, otherwise pads it with zero bytes to the
\* canonical length.
canonical_address(human) ==
    IF Len(human) < 3 \/ Len(human) > CanonicalLength
    THEN [ok |-> FALSE, addr |-> << >>]
    ELSE [ok |-> TRUE,
          addr |-> human \o [i \in 1 .. (CanonicalLength - Len(human)) |-> 0]]

\* state::State
State(key, owner) == [reencryption_key |-> key, owner |-> owner]

\* state::CONFIG_KEY, the storage key of the singleton
CONFIG_KEY == "config"

\* a storage that holds nothing
EmptyStorage == [k \in {} |-> State(ZeroKey, << >>)]

\* whether the singleton holds a record (load succeeds)
exists(st) == CONFIG_KEY \in DOMAIN st

\* Singleton::load of a storage that holds the record
load(st) == st[CONFIG_KEY]

\* Singleton::save: overwrite the single record
save(st, state) == [k \in {CONFIG_KEY} |-> state]

(* ----------------------------- outcomes ------------------------------ *)

\* InitResponse::default()
InitResponseDefault ==
    [kind |-> "InitResponse", messages |-> << >>, log |-> << >>, data |-> << >>]

\* HandleResponse::default()
HandleResponseDefault ==
    [kind |-> "HandleResponse", messages |-> << >>, log |-> << >>, data |-> << >>]

\* to_binary(&ReencryptionKeyResponse)
to_binary(resp) ==
    [kind |-> "Binary", messages |-> << >>, log |-> << >>, data |-> <<resp>>]

NoResponse ==
    [kind |-> "Err", messages |-> << >>, log |-> << >>, data |-> << >>]

\* Err(e): the storage is as the handler found it, nothing was saved
Fail(st, e) == [store |-> st, result |-> e, response |-> NoResponse, saves |-> 0]

\* Ok(resp) after one save
Saved(st, resp) == [store |-> st, result |-> "Ok", response |-> resp, saves |-> 1]

\* Ok(resp) of a read
Read(st, resp) == [store |-> st, result |-> "Ok", response |-> resp, saves |-> 0]

(* ----------------------------- contract ------------------------------ *)

\* init with the owner stored as the sender's human address, not canonicalized
init_RawOwner(st, sender) ==
    LET owner == canonical_address(sender) IN
    IF ~owner.ok THEN Fail(st, "GenericErr")
    ELSE Saved(save(st, State(ZeroKey, sender)), InitResponseDefault)

\* init that refuses to run over an existing record
init_OnlyOnce(st, sender) ==
    LET owner == canonical_address(sender) IN
    IF ~owner.ok \/ exists(st) THEN Fail(st, "GenericErr")
    ELSE Saved(save(st, State(ZeroKey, owner.addr)), InitResponseDefault)

init(st, sender) ==
    LET owner == canonical_address(sender) IN
    IF ~owner.ok THEN Fail(st, "GenericErr")
    ELSE Saved(save(st, State(ZeroKey, owner.addr)), InitResponseDefault)

\* Set with the ownership check of Reset copied into it
try_set_OwnerOnly(st, sender, key) ==
    LET sender_address_raw == canonical_address(sender) IN
    IF ~sender_address_raw.ok THEN Fail(st, "GenericErr")
    ELSE IF ~exists(st) THEN Fail(st, "NotFound")
    ELSE LET state == load(st) IN
         IF sender_address_raw.addr # state.owner
         THEN Fail(st, "Unauthorized")
         ELSE Saved(save(st, [state EXCEPT !.reencryption_key = key]),
                    HandleResponseDefault)

\* Set that also records the sender as the owner
try_set_TakesOwnership(st, sender, key) ==
    LET sender_address_raw == canonical_address(sender) IN
    IF ~sender_address_raw.ok THEN Fail(st, "GenericErr")
    ELSE IF ~exists(st) THEN Fail(st, "NotFound")
    ELSE Saved(save(st, State(key, sender_address_raw.addr)),
               HandleResponseDefault)

\* Set that saves a fresh record instead of updating the loaded one
try_set_SavesFresh(st, sender, key) ==
    LET sender_address_raw == canonical_address(sender) IN
    IF ~sender_address_raw.ok THEN Fail(st, "GenericErr")
    ELSE Saved(save(st, State(key, IF exists(st) THEN load(st).owner
                                   ELSE sender_address_raw.addr)),
               HandleResponseDefault)

\* Set that hands the stored key back in the response data
try_set_ReturnsKey(st, sender, key) ==
    LET sender_address_raw == canonical_address(sender) IN
    IF ~sender_address_raw.ok THEN Fail(st, "GenericErr")
    ELSE IF ~exists(st) THEN Fail(st, "NotFound")
    ELSE LET state == load(st) IN
         Saved(save(st, [state EXCEPT !.reencryption_key = key]),
               [HandleResponseDefault EXCEPT !.data = <<key>>])

try_set_reencryption_key(st, sender, key) ==
    LET sender_address_raw == canonical_address(sender) IN
    IF ~sender_address_raw.ok THEN Fail(st, "GenericErr")
    ELSE IF ~exists(st) THEN Fail(st, "NotFound")
    ELSE LET state == load(st) IN
         Saved(save(st, [state EXCEPT !.reencryption_key = key]),
               HandleResponseDefault)

\* Reset without the ownership check
try_reset_NoOwnerCheck(st, sender) ==
    LET sender_address_raw == canonical_address(sender) IN
    IF ~sender_address_raw.ok THEN Fail(st, "GenericErr")
    ELSE IF ~exists(st) THEN Fail(st, "NotFound")
    ELSE LET state == load(st) IN
         Saved(save(st, [state EXCEPT !.reencryption_key = ZeroKey]),
               HandleResponseDefault)

\* Reset with the comparison inverted (== for !=)
try_reset_InvertedCheck(st, sender) ==
    LET sender_address_raw == canonical_address(sender) IN
    IF ~sender_address_raw.ok THEN Fail(st, "GenericErr")
    ELSE IF ~exists(st) THEN Fail(st, "NotFound")
    ELSE LET state == load(st) IN
         IF sender_address_raw.addr = state.owner
         THEN Fail(st, "Unauthorized")
         ELSE Saved(save(st, [state EXCEPT !.reencryption_key = ZeroKey]),
                    HandleResponseDefault)

\* Reset that saves the state without clearing the key
try_reset_KeepsKey(st, sender) ==
    LET sender_address_raw == canonical_address(sender) IN
    IF ~sender_address_raw.ok THEN Fail(st, "GenericErr")
    ELSE IF ~exists(st) THEN Fail(st, "NotFound")
    ELSE LET state == load(st) IN
         IF sender_address_raw.addr # state.owner
         THEN Fail(st, "Unauthorized")
         ELSE Saved(save(st, state), HandleResponseDefault)

\* Reset that refuses to run when the key is already clear
try_reset_RejectsCleared(st, sender) ==
    LET sender_address_raw == canonical_address(sender) IN
    IF ~sender_address_raw.ok THEN Fail(st, "GenericErr")
    ELSE IF ~exists(st) THEN Fail(st, "NotFound")
    ELSE LET state == load(st) IN
         IF sender_address_raw.addr # state.owner
         THEN Fail(st, "Unauthorized")
         ELSE IF state.reencryption_key = ZeroKey
         THEN Fail(st, "GenericErr")
         ELSE Saved(save(st, [state EXCEPT !.reencryption_key = ZeroKey]),
                    HandleResponseDefault)

\* Reset that removes the record instead of clearing its key
try_reset_RemovesRecord(st, sender) ==
    LET sender_address_raw == canonical_address(sender) IN
    IF ~sender_address_raw.ok THEN Fail(st, "GenericErr")
    ELSE IF ~exists(st) THEN Fail(st, "NotFound")
    ELSE LET state == load(st) IN
         IF sender_address_raw.addr # state.owner
         THEN Fail(st, "Unauthorized")
         ELSE Saved(EmptyStorage, HandleResponseDefault)

\* Reset that clears and saves the key before it checks the sender
try_reset_ClearsThenChecks(st, sender) ==
    LET sender_address_raw == canonical_address(sender) IN
    IF ~sender_address_raw.ok THEN Fail(st, "GenericErr")
    ELSE IF ~exists(st) THEN Fail(st, "NotFound")
    ELSE LET state == load(st)
             cleared == save(st, [state EXCEPT !.reencryption_key = ZeroKey])
         IN  IF sender_address_raw.addr # state.owner
             THEN [store |-> cleared, result |-> "Unauthorized",
                   response |-> NoResponse, saves |-> 1]
             ELSE Saved(cleared, HandleResponseDefault)

try_reset(st, sender) ==
    LET sender_address_raw == canonical_address(sender) IN
    IF ~sender_address_raw.ok THEN Fail(st, "GenericErr")
    ELSE IF ~exists(st) THEN Fail(st, "NotFound")
    ELSE LET state == load(st) IN
         IF sender_address_raw.addr # state.owner
         THEN Fail(st, "Unauthorized")
         ELSE Saved(save(st, [state EXCEPT !.reencryption_key = ZeroKey]),
                    HandleResponseDefault)

handle(st, sender, msg) ==
    IF msg.tag = "set"
    THEN try_set_reencryption_key(st, sender, msg.reencryption_key)
    ELSE try_reset(st, sender)

\* the query answering with a default key instead of the stored one
query_count_DefaultKey(st) ==
    IF ~exists(st) THEN Fail(st, "NotFound")
    ELSE Read(st, ReencryptionKeyResponse(ZeroKey))

query_count(st) ==
    IF ~exists(st) THEN Fail(st, "NotFound")
    ELSE LET state == load(st) IN
         Read(st, ReencryptionKeyResponse(state.reencryption_key))

query(st, msg) ==
    LET r == query_count(st) IN
    IF r.result # "Ok" THEN r
    ELSE Read(st, to_binary(r.response))

(* ------------------------------- state ------------------------------- *)

VARIABLES
    store,      \* deps.storage
    prev,       \* deps.storage as the last call found it
    op,         \* the last call: "none", "init", "set", "reset", "query"
    sender,     \* its env.message.sender
    arg,        \* the key of its message (ZeroKey when it carries none)
    result,     \* the StdResult it returned: "Ok" or the error
    response,   \* the value inside Ok
    saves,      \* how many times it called save
    creator,    \* <<s>> for the sender s of the last successful init, else << >>
    resetBefore, \* the call before the last one was a Reset that returned Ok
    lastMut     \* the last init, Set or Reset that returned Ok, and its key

vars == <<store, prev, op, sender, arg, result, response, saves, creator,
          resetBefore, lastMut>>

\* the entry points that write the storage
Mutating == {"init", "set", "reset"}

Init ==
    /\ store = EmptyStorage
    /\ prev = EmptyStorage
    /\ op = "none"
    /\ sender = << >>
    /\ arg = ZeroKey
    /\ result = "Ok"
    /\ response = NoResponse
    /\ saves = 0
    /\ creator = << >>
    /\ resetBefore = FALSE
    /\ lastMut = [op |-> "none", key |-> ZeroKey]

\* The call `o` by `s` with key `k` ran and returned `out`.
Apply(o, s, k, out) ==
    /\ store' = out.store
    /\ prev' = store
    /\ op' = o
    /\ sender' = s
    /\ arg' = k
    /\ result' = out.result
    /\ response' = out.response
    /\ saves' = out.saves
    /\ resetBefore' = (op = "reset" /\ result = "Ok")
    /\ lastMut' = IF o \in Mutating /\ out.result = "Ok"
                  THEN [op |-> o, key |-> k]
                  ELSE lastMut

Initialize(s) ==
    LET out == init(store, s) IN
    /\ Apply("init", s, ZeroKey, out)
    /\ creator' = IF out.result = "Ok" THEN <<s>> ELSE creator

\* The host instantiates a contract instance once.
Instantiate(s) ==
    /\ store = EmptyStorage
    /\ Initialize(s)

Set(s, k) ==
    /\ Apply("set", s, k, handle(store, s, SetMsg(k)))
    /\ UNCHANGED creator

Reset(s) ==
    /\ Apply("reset", s, ZeroKey, handle(store, s, ResetMsg))
    /\ UNCHANGED creator

GetReencryptionKey(s) ==
    /\ Apply("query", s, ZeroKey, query(store, GetReencryptionKeyMsg))
    /\ UNCHANGED creator

\* The host's life cycle: one init per instance.
Next ==
    \/ \E s \in Senders : Instantiate(s)
    \/ \E s \in Senders, k \in Keys : Set(s, k)
    \/ \E s \in Senders : Reset(s)
    \/ \E s \in Senders : GetReencryptionKey(s)

Spec == Init /\ [][Next]_vars

\* init called as any other entry point, whatever the storage holds.
NextReinit ==
    \/ \E s \in Senders : Initialize(s)
    \/ \E s \in Senders, k \in Keys : Set(s, k)
    \/ \E s \in Senders : Reset(s)
    \/ \E s \in Senders : GetReencryptionKey(s)

SpecReinit == Init /\ [][NextReinit]_vars

(* ------------------------------ helpers ------------------------------ *)

Initialized(st) == exists(st)

KeyOf(st) == load(st).reencryption_key

OwnerOf(st) == load(st).owner

Canon(s) == canonical_address(s).addr

TypeOK ==
    /\ DOMAIN store \subseteq {CONFIG_KEY}
    /\ Initialized(store) => KeyOf(store) \in Keys
    /\ result \in {"Ok", "Unauthorized", "NotFound", "GenericErr"}
    /\ saves \in {0, 1}

(* ------------------------------ claims ------------------------------- *)

\* the last call ran on an initialized storage, by someone other than the owner
ByStranger == Initialized(prev) /\ Canon(sender) # OwnerOf(prev)

\* the last call ran on an initialized storage, by the owner
ByOwner == Initialized(prev) /\ Canon(sender) = OwnerOf(prev)

\* C1: on an initialized storage, Reset by a sender whose canonical address
\* differs from the stored owner returns Unauthorized, leaves the record
\* (owner and reencryption_key) as it was and does not call save.
C1_ResetByStrangerRejected ==
    (op = "reset" /\ ByStranger) =>
        /\ result = "Unauthorized"
        /\ store = prev
        /\ saves = 0

\* a stranger's Reset was rejected while a non-zero key was stored
C1_Witness ==
    /\ op = "reset"
    /\ ByStranger
    /\ KeyOf(prev) # ZeroKey
    /\ result = "Unauthorized"

\* the step of the last call took the stored key from a non-zero value to zero
KeyCleared ==
    /\ Initialized(prev)
    /\ Initialized(store)
    /\ KeyOf(prev) # ZeroKey
    /\ KeyOf(store) = ZeroKey

\* C2, as claimed: every step that takes the stored key from a non-zero value
\* to the all-zero value is a Reset called by the owner.
C2_OnlyOwnerResetClears ==
    KeyCleared => (op = "reset" /\ ByOwner)

\* C2, amended: every step that takes the stored key from a non-zero value to
\* the all-zero value is a Reset called by the owner or a Set whose message
\* carries the all-zero key (by any sender).
C2_ClearedByOwnerResetOrZeroSet ==
    KeyCleared => \/ (op = "reset" /\ ByOwner)
                  \/ (op = "set" /\ arg = ZeroKey)

\* a stranger's Set of the all-zero key cleared a non-zero key
C2_Witness ==
    /\ KeyCleared
    /\ op = "set"
    /\ ByStranger

\* C3: on an initialized storage, whatever calls came before, Reset by the
\* owner succeeds, leaves the stored key all-zero and the owner unchanged.
C3_OwnerResetZeroes ==
    (op = "reset" /\ ByOwner) =>
        /\ result = "Ok"
        /\ Initialized(store)
        /\ KeyOf(store) = ZeroKey
        /\ OwnerOf(store) = OwnerOf(prev)

\* the owner's Reset succeeded over a non-zero key
C3_Witness ==
    /\ op = "reset"
    /\ ByOwner
    /\ KeyOf(prev) # ZeroKey
    /\ result = "Ok"

\* C4: on an initialized storage, Set(K) by any sender succeeds, and the
\* GetReencryptionKey query of the storage it leaves returns exactly K.
C4_SetThenGetRoundTrip ==
    (op = "set" /\ Initialized(prev)) =>
        /\ result = "Ok"
        /\ query(store, GetReencryptionKeyMsg).result = "Ok"
        /\ query(store, GetReencryptionKeyMsg).response
               = to_binary(ReencryptionKeyResponse(arg))

\* a stranger set a key whose bytes are not all equal
C4_Witness ==
    /\ op = "set"
    /\ ByStranger
    /\ arg[1] # arg[KeyLen]
    /\ result = "Ok"

\* C5: init by sender C leaves the record {owner: canonical address of C,
\* reencryption_key: all zeros}: the query then returns the all-zero key,
\* Reset by C succeeds and Reset by any other sender fails with Unauthorized.
C5_InitSetsOwnerAndZeroKey ==
    op = "init" =>
        /\ result = "Ok"
        /\ Initialized(store)
        /\ load(store) = State(ZeroKey, Canon(sender))
        /\ query(store, GetReencryptionKeyMsg).response
               = to_binary(ReencryptionKeyResponse(ZeroKey))
        /\ \A d \in Senders :
               handle(store, d, ResetMsg).result
                   = IF d = sender THEN "Ok" ELSE "Unauthorized"

\* init has just run
C5_Witness ==
    /\ op = "init"
    /\ result = "Ok"
    /\ Initialized(store)
    /\ \E d \in Senders : d # sender

\* C6: in every state reached from the initialized one by Set, Reset and
\* GetReencryptionKey calls, the stored owner is the canonical address of
\* the sender that performed init.
C6_OwnerNeverChanges ==
    Initialized(store) =>
        /\ Len(creator) = 1
        /\ OwnerOf(store) = Canon(creator[1])
        /\ (op # "init" => OwnerOf(store) = OwnerOf(prev))

\* a stranger's successful Set has just run
C6_Witness ==
    /\ op = "set"
    /\ ByStranger
    /\ result = "Ok"
    /\ sender # creator[1]
    /\ KeyOf(store) # KeyOf(prev)

\* C7, as claimed: once the record exists, a further init call does not
\* overwrite the stored owner or reencryption_key.
C7_InitDoesNotOverwrite ==
    (op = "init" /\ Initialized(prev)) => store = prev

\* C7, amended: init does not look at the storage; a further init call
\* succeeds and overwrites the one record with {owner: canonical address of
\* its sender, reencryption_key: all zeros}.  The storage still holds exactly
\* one record.
C7_InitOverwritesTheOneRecord ==
    (op = "init" /\ Initialized(prev)) =>
        /\ result = "Ok"
        /\ saves = 1
        /\ DOMAIN store = {CONFIG_KEY}
        /\ load(store) = State(ZeroKey, Canon(sender))

\* init ran over a record with another owner and a non-zero key
C7_Witness ==
    /\ op = "init"
    /\ ByStranger
    /\ KeyOf(prev) # ZeroKey

\* C8: before init has run, Set, Reset and GetReencryptionKey fail with
\* NotFound, call no save and leave the storage without a record.
C8_NotFoundBeforeInit ==
    (op \in {"set", "reset", "query"} /\ ~Initialized(prev)) =>
        /\ result = "NotFound"
        /\ saves = 0
        /\ store = EmptyStorage

\* a Set of a non-zero key failed on the empty storage
C8_Witness ==
    /\ op = "set"
    /\ ~Initialized(prev)
    /\ arg # ZeroKey
    /\ result = "NotFound"

\* C9: on an initialized storage GetReencryptionKey succeeds, returns the
\* stored reencryption_key as it is and leaves the record unchanged.
C9_QueryReadOnly ==
    (op = "query" /\ Initialized(prev)) =>
        /\ result = "Ok"
        /\ response = to_binary(ReencryptionKeyResponse(KeyOf(prev)))
        /\ store = prev
        /\ saves = 0

\* a stranger queried a key whose bytes are not all equal
C9_Witness ==
    /\ op = "query"
    /\ ByStranger
    /\ KeyOf(prev)[1] # KeyOf(prev)[KeyLen]
    /\ result = "Ok"

\* C10: on an initialized storage the only error a call returns is
\* Unauthorized, from a Reset whose sender is not the owner: Set by anyone,
\* Reset by the owner and GetReencryptionKey return Ok.
C10_OnlyStrangerResetFails ==
    Initialized(prev) =>
        /\ (op \in {"set", "query"} => result = "Ok")
        /\ (op = "reset" /\ ByOwner => result = "Ok")
        /\ (result # "Ok" =>
                op = "reset" /\ result = "Unauthorized" /\ ByStranger)

\* an error was returned on an initialized storage
C10_Witness ==
    /\ Initialized(prev)
    /\ result # "Ok"

\* C11: Reset by the owner is idempotent: a Reset by the owner that comes
\* right after a successful Reset succeeds too, finds the key all-zero,
\* leaves it all-zero and leaves the whole record as the first Reset left it.
C11_OwnerResetIdempotent ==
    (op = "reset" /\ ByOwner /\ resetBefore) =>
        /\ result = "Ok"
        /\ KeyOf(prev) = ZeroKey
        /\ KeyOf(store) = ZeroKey
        /\ store = prev

\* the owner's second Reset in a row has run
C11_Witness ==
    /\ op = "reset"
    /\ ByOwner
    /\ resetBefore
    /\ result = "Ok"

\* a value of type [u8; 32]
IsKey(k) ==
    /\ DOMAIN k = 1 .. KeyLen
    /\ \A i \in 1 .. KeyLen : k[i] \in 0 .. 255

\* C12: once init has run, every Set, Reset and GetReencryptionKey call
\* leaves the record in place (it is never deleted), and its
\* reencryption_key is a 32-byte value.
C12_RecordStaysWithKeyOf32Bytes ==
    (Len(creator) = 1 \/ Initialized(prev)) =>
        /\ DOMAIN store = {CONFIG_KEY}
        /\ IsKey(KeyOf(store))
        /\ Len(KeyOf(store)) = KeyLen

\* the owner's Reset has cleared a non-zero key and the record is still there
C12_Witness ==
    /\ op = "reset"
    /\ ByOwner
    /\ KeyOf(prev) # ZeroKey
    /\ Initialized(store)
    /\ Len(KeyOf(store)) = KeyLen

\* C13: every init, Set and Reset that succeeds returns a response without
\* payload: no messages, no log entries, no data.
C13_SuccessHasNoPayload ==
    (op \in Mutating /\ result = "Ok") =>
        /\ response.messages = << >>
        /\ response.log = << >>
        /\ response.data = << >>
        /\ response = IF op = "init" THEN InitResponseDefault
                      ELSE HandleResponseDefault

\* a Set of a non-zero key has succeeded
C13_Witness ==
    /\ op = "set"
    /\ arg # ZeroKey
    /\ result = "Ok"
    /\ response.kind = "HandleResponse"

\* C14: on an initialized storage the stored key is the one of the last
\* init, Set or Reset that returned Ok: the key of the message for a Set, the
\* all-zero key for init and Reset (which returns Ok for the owner only).
\* Calls that fail and queries change neither the key nor that last call.
C14_KeyIsThatOfLastSuccessfulMutation ==
    Initialized(store) =>
        /\ lastMut.op \in Mutating
        /\ KeyOf(store) = IF lastMut.op = "set" THEN lastMut.key ELSE ZeroKey
        /\ (op = "reset" /\ result = "Ok" => ByOwner)
        /\ (Initialized(prev) /\ (result # "Ok" \/ op = "query") =>
                KeyOf(store) = KeyOf(prev))

\* a stranger's Reset failed after a Set of a non-zero key, which still stands
C14_Witness ==
    /\ op = "reset"
    /\ ByStranger
    /\ result = "Unauthorized"
    /\ lastMut.op = "set"
    /\ lastMut.key # ZeroKey
    /\ KeyOf(store) = lastMut.key

=============================================================================
